---- MODULE Spec2Model ----
(***************************************************************************)
(* Model of iqtools/tools.py: the stateless helper functions of the IQTools *)
(* library.  Every helper is a pure function of its arguments (and of the   *)
(* file it reads), so each is modelled as an operator and exercised by a    *)
(* specification of its own whose Init draws the arguments from bounded     *)
(* sets and whose action performs the call.  The file writers are modelled  *)
(* step by step, because the property of interest there is the life cycle   *)
(* of the file handle.                                                      *)
(*                                                                          *)
(*   args : the arguments of the call (source parameter names)             *)
(*   pc   : position of the call ("call", "done", ... )                    *)
(*   ret  : what the call produced: a record with status "ok" and the      *)
(*          returned values, or the name of the exception it raised         *)
(*   fh   : state of the output file handle of a writer                     *)
(*   out  : lines written so far by a writer                                *)
(***************************************************************************)
EXTENDS Integers, Sequences, FiniteSets, TLC

VARIABLES args, pc, ret, fh, out

vars == <<args, pc, ret, fh, out>>

NoRet == [status |-> "none"]

Raised(e) == [status |-> e]

Max(S) == CHOOSE k \in S : \A j \in S : j <= k

RECURSIVE Pow10(_)
Pow10(n) == IF n <= 0 THEN 1 ELSE 10 * Pow10(n - 1)

(***************************************************************************)
(* Complex numbers.  The DFT of length L needs the L-th roots of unity.     *)
(* For every L dividing 12 these lie in the ring Z[zeta], zeta =            *)
(* exp(2 pi i / 12), whose elements are written uniquely as                 *)
(* a + b zeta + c zeta^2 + d zeta^3 (zeta^4 = zeta^2 - 1) and are kept as   *)
(* <<a, b, c, d>>.  The imaginary unit is zeta^3, so a complex sample       *)
(* re + im*i is <<re, 0, 0, im>>.  Arithmetic is exact.                     *)
(***************************************************************************)
Cplx(re, im) == <<re, 0, 0, im>>

CZero == <<0, 0, 0, 0>>

CAdd(u, v) == <<u[1] + v[1], u[2] + v[2], u[3] + v[3], u[4] + v[4]>>

MulZeta(u) == <<-u[4], u[1], u[2] + u[4], u[3]>>

RECURSIVE MulZetaPow(_, _)
MulZetaPow(u, k) == IF k = 0 THEN u ELSE MulZetaPow(MulZeta(u), k - 1)

CDivInt(u, n) == <<u[1] \div n, u[2] \div n, u[3] \div n, u[4] \div n>>

\* u * exp(2 pi i * k / L), for L dividing 12 and any integer k
Twiddle(u, k, L) == MulZetaPow(u, ((k * (12 \div L)) % 12))

RECURSIVE CSum(_, _)
\* sum of the first n terms of a sequence of ring elements
CSum(t, n) == IF n = 0 THEN CZero ELSE CAdd(CSum(t, n - 1), t[n])

(***************************************************************************)
(* numpy.reshape(a, (d1, d2)) on an array of `size` elements: the shape it  *)
(* produces, or an error.  One dimension may be -1 and is then inferred.    *)
(***************************************************************************)
ShapeError == [ok |-> FALSE, rows |-> 0, cols |-> 0]

Shape(r, c) == [ok |-> TRUE, rows |-> r, cols |-> c]

\* a reshape that only asks the array to be large enough for the grid
reshape_lax(size, d1, d2) ==
    IF d1 < 0 \/ d2 < 0 THEN ShapeError
    ELSE IF d1 * d2 <= size THEN Shape(d1, d2) ELSE ShapeError

reshape(size, d1, d2) ==
    IF d1 < -1 \/ d2 < -1 \/ (d1 = -1 /\ d2 = -1) THEN ShapeError
    ELSE IF d1 = -1
         THEN IF d2 > 0 /\ size % d2 = 0 THEN Shape(size \div d2, d2) ELSE ShapeError
    ELSE IF d2 = -1
         THEN IF d1 > 0 /\ size % d1 = 0 THEN Shape(d1, size \div d1) ELSE ShapeError
    ELSE IF d1 * d2 = size THEN Shape(d1, d2) ELSE ShapeError

\* row-major (C order) layout of a flat sequence as rows x cols
RowMajor(x, rows, cols) ==
    [r \in 1..rows |-> [c \in 1..cols |-> x[(r - 1) * cols + c]]]

\* row-major flattening of a matrix
Flatten(m, rows, cols) ==
    [k \in 1..(rows * cols) |-> m[((k - 1) \div cols) + 1][((k - 1) % cols) + 1]]

\* numpy.fft.fft of one row: X[k] = sum_n row[n] exp(-2 pi i k n / L), no scaling
FFTRow(row) ==
    LET L == Len(row)
    IN  [k \in 1..L |->
            CSum([n \in 1..L |-> Twiddle(row[n], -((k - 1) * (n - 1)), L)], L)]

\* numpy.fft.ifft of one row: x[n] = (1/L) sum_k row[k] exp(+2 pi i k n / L)
IFFTRow(row) ==
    LET L == Len(row)
    IN  [n \in 1..L |->
            CDivInt(CSum([k \in 1..L |-> Twiddle(row[k], (k - 1) * (n - 1), L)], L), L)]

\* a ValueError raised by numpy: nothing is returned
FFTError == [status |-> "ValueError", rows |-> 0, cols |-> 0, zz |-> <<>>, inv_zz |-> <<>>]

\* get_cplx_spectrogram(x, nframes, lframes): reshape, then fft along axis 1,
\* which numpy refuses for rows of no points
get_cplx_spectrogram(x, nframes, lframes) ==
    LET sh == reshape(Len(x), nframes, lframes)
    IN  IF ~sh.ok THEN FFTError
        ELSE IF sh.cols < 1 THEN FFTError
        ELSE LET sig == RowMajor(x, sh.rows, sh.cols)
             IN  [status |-> "ok", rows |-> sh.rows, cols |-> sh.cols,
                  zz |-> [r \in 1..sh.rows |-> FFTRow(sig[r])],
                  inv_zz |-> <<>>]

\* a column-major (Fortran order) flattening
flatten_column_major(m, rows, cols) ==
    [k \in 1..(rows * cols) |-> m[((k - 1) % rows) + 1][((k - 1) \div rows) + 1]]

\* the flattening done by get_inv_cplx_spectrogram: reshape to (1, n*l), row 0
flatten_inv_zz(m, rows, cols) == Flatten(m, rows, cols)

\* get_inv_cplx_spectrogram(zz, nframes, lframes) on a rows x cols matrix zz
get_inv_cplx_spectrogram(zz, rows, cols, nframes, lframes) ==
    LET inv == [r \in 1..rows |-> IFFTRow(zz[r])]
        sh  == reshape(rows * cols, 1, nframes * lframes)
    IN  IF ~sh.ok THEN FFTError
        ELSE [status |-> "ok", rows |-> rows, cols |-> cols, zz |-> zz,
              inv_zz |-> flatten_inv_zz(inv, rows, cols)]

MaxSamples == 6
MaxFrames == 3

SampleSet == {Cplx(1, 0), Cplx(-2, 3)}

\* frame lengths: the -1 wildcard, 0, and the lengths whose DFT lies in Z[zeta]
FrameLengths == {-1, 0, 1, 2, 3, 4, 6}

RECURSIVE SeqsUpTo(_, _)
SeqsUpTo(S, n) ==
    IF n = 0 THEN {<<>>}
    ELSE LET shorter == SeqsUpTo(S, n - 1)
         IN  shorter \cup {Append(s, e) : s \in {t \in shorter : Len(t) = n - 1}, e \in S}

InitFFT ==
    /\ args \in [x : SeqsUpTo(SampleSet, MaxSamples),
                 nframes : -1..MaxFrames,
                 lframes : FrameLengths]
    /\ pc = "call"
    /\ ret = NoRet
    /\ fh = "none"
    /\ out = <<>>

Forward ==
    /\ pc = "call"
    /\ ret' = get_cplx_spectrogram(args.x, args.nframes, args.lframes)
    /\ pc' = "forward"
    /\ UNCHANGED <<args, fh, out>>

Inverse ==
    /\ pc = "forward"
    /\ ret.status = "ok"
    /\ ret' = get_inv_cplx_spectrogram(ret.zz, ret.rows, ret.cols,
                                    args.nframes, args.lframes)
    /\ pc' = "inverse"
    /\ UNCHANGED <<args, fh, out>>

NextFFT == Forward \/ Inverse

SpecFFT == InitFFT /\ [][NextFFT]_vars

GridMatches == Len(args.x) = args.nframes * args.lframes

\* C1: for nframes >= 1, lframes >= 1 and len(x) = nframes*lframes the forward
\* transform succeeds and the inverse of its result is a flat sequence of
\* nframes*lframes values whose element r*lframes + c is x[r*lframes + c].
C1_RoundTrip ==
    (args.nframes >= 1 /\ args.lframes >= 1 /\ GridMatches) =>
        /\ pc \in {"forward", "inverse"} => ret.status = "ok"
        /\ pc = "inverse" =>
              /\ DOMAIN ret.inv_zz = 1..(args.nframes * args.lframes)
              /\ \A r \in 0..(args.nframes - 1) : \A c \in 0..(args.lframes - 1) :
                    ret.inv_zz[r * args.lframes + c + 1] = args.x[r * args.lframes + c + 1]

\* a round trip of two frames of three samples that are not all alike
C1_Witness ==
    /\ pc = "inverse"
    /\ args.nframes = 2 /\ args.lframes = 3
    /\ args.x = <<Cplx(1, 0), Cplx(-2, 3), Cplx(-2, 3), Cplx(1, 0), Cplx(1, 0), Cplx(-2, 3)>>
    /\ ret.status = "ok"
    /\ ret.zz[1][1] = Cplx(-3, 6)
    /\ ret.inv_zz[2] = Cplx(-2, 3)

IsMatrix(zz, rows, cols) ==
    /\ DOMAIN zz = 1..rows
    /\ \A r \in 1..rows : DOMAIN zz[r] = 1..cols

\* C2 as stated: the forward transform fails whenever len(x) # nframes*lframes
\* and returns an nframes x lframes matrix whenever len(x) = nframes*lframes.
C2_AsStated ==
    pc = "forward" =>
        IF GridMatches
        THEN ret.status = "ok" /\ IsMatrix(ret.zz, args.nframes, args.lframes)
        ELSE ret.status # "ok"

\* C2 amended: the same for nframes >= 0 and lframes >= 1 (no -1 wildcard
\* dimension, no frames of zero samples).
C2_ShapeContract ==
    (pc = "forward" /\ args.nframes >= 0 /\ args.lframes >= 1) =>
        IF GridMatches
        THEN ret.status = "ok" /\ IsMatrix(ret.zz, args.nframes, args.lframes)
        ELSE ret.status = "ValueError" /\ ret.zz = <<>>

\* five samples do not fill a 2 x 3 grid: the call failed
C2_Witness ==
    /\ pc = "forward"
    /\ args.nframes = 2 /\ args.lframes = 3 /\ Len(args.x) = 5
    /\ ret.status = "ValueError"

(***************************************************************************)
(* read_specan_xml.  The reader looks at the document only through          *)
(* iter(tag=...), so a document is the texts of its Count, XStart, XStop,   *)
(* XUnits, YUnits and y elements, each list in document order.  A loop      *)
(* `for elem in iter(tag): v = ...` leaves v bound to the last element, and *)
(* unbound when there is none; using an unbound local raises                *)
(* UnboundLocalError.  Axis points are exact rationals <<numerator,         *)
(* denominator>>.                                                           *)
(***************************************************************************)
Last(s) == s[Len(s)]

RatEq(a, b) == a[1] * b[2] = b[1] * a[2]

RatSub(a, b) == <<a[1] * b[2] - b[1] * a[2], a[2] * b[2]>>

\* numpy.linspace without the end point: num steps of (stop - start) / num
linspace_no_endpoint(start, stop, num) ==
    [i \in 1..num |-> <<start * num + (i - 1) * (stop - start), num>>]

\* numpy.linspace(start, stop, num), num >= 0: start + i * (stop - start)/(num - 1)
linspace(start, stop, num) ==
    IF num = 1 THEN << <<start, 1>> >>
    ELSE [i \in 1..num |-> <<start * (num - 1) + (i - 1) * (stop - start), num - 1>>]

\* p = np.zeros(count), then p[i] = float(text of the i-th y element)
FillPower(count, y) == [i \in 1..count |-> IF i <= Len(y) THEN y[i] ELSE 0]

XmlError(e) == [status |-> e, f |-> <<>>, p |-> <<>>, units |-> <<>>]

read_specan_xml(doc) ==
    IF doc.Count = <<>> THEN XmlError("UnboundLocalError")
    ELSE LET count == Last(doc.Count)
         IN  IF count < 0 THEN XmlError("ValueError")
             ELSE IF Len(doc.y) > count THEN XmlError("IndexError")
             ELSE IF doc.XStart = <<>> \/ doc.XStop = <<>> THEN XmlError("UnboundLocalError")
             ELSE IF doc.XUnits = <<>> \/ doc.YUnits = <<>> THEN XmlError("UnboundLocalError")
             ELSE [status |-> "ok",
                   f |-> linspace(Last(doc.XStart), Last(doc.XStop), count),
                   p |-> FillPower(count, doc.y),
                   units |-> <<Last(doc.XUnits), Last(doc.YUnits)>>]

MaxCount == 3
MaxY == 3

YValues == {7, 8}

InitXml ==
    /\ args \in [Count : SeqsUpTo(0..MaxCount, 2),
                 XStart : {<<>>, <<0>>, <<2>>},
                 XStop : {<<>>, <<4>>, <<2>>},
                 XUnits : {<<>>, <<"Hz">>},
                 YUnits : {<<>>, <<"dBm">>},
                 y : SeqsUpTo(YValues, MaxY)]
    /\ pc = "call"
    /\ ret = NoRet
    /\ fh = "none"
    /\ out = <<>>

ReadXml ==
    /\ pc = "call"
    /\ ret' = read_specan_xml(args)
    /\ pc' = "done"
    /\ UNCHANGED <<args, fh, out>>

NextXml == ReadXml

SpecXml == InitXml /\ [][NextXml]_vars

\* the document has every scalar the reader needs
HasScalars ==
    /\ args.Count # <<>> /\ args.XStart # <<>> /\ args.XStop # <<>>
    /\ args.XUnits # <<>> /\ args.YUnits # <<>>

CountMatches == Last(args.Count) = Len(args.y)

\* the axis has n points, consecutive points are the same distance apart
EvenlySpaced(f, n) ==
    /\ DOMAIN f = 1..n
    /\ \A i \in 1..(n - 2) : RatEq(RatSub(f[i + 1], f[i]), RatSub(f[i + 2], f[i + 1]))

PowerInDocumentOrder(p, n) ==
    /\ DOMAIN p = 1..n
    /\ \A i \in 1..n : p[i] = args.y[i]

\* C3 as stated: with Count equal to the number of y elements the axis has
\* Count evenly spaced points running from XStart to XStop inclusive, and the
\* power values are the y texts in document order.
C3_AsStated ==
    (pc = "done" /\ HasScalars /\ CountMatches) =>
        LET n == Last(args.Count)
        IN  /\ ret.status = "ok"
            /\ EvenlySpaced(ret.f, n)
            /\ PowerInDocumentOrder(ret.p, n)
            /\ n >= 1 => /\ RatEq(ret.f[1], <<Last(args.XStart), 1>>)
                         /\ RatEq(ret.f[n], <<Last(args.XStop), 1>>)

\* C3 amended: the axis starts at XStart, and ends at XStop when Count >= 2;
\* a single-point axis is XStart alone.
C3_Axis ==
    (pc = "done" /\ HasScalars /\ CountMatches) =>
        LET n == Last(args.Count)
        IN  /\ ret.status = "ok"
            /\ EvenlySpaced(ret.f, n)
            /\ PowerInDocumentOrder(ret.p, n)
            /\ n >= 1 => RatEq(ret.f[1], <<Last(args.XStart), 1>>)
            /\ n >= 2 => RatEq(ret.f[n], <<Last(args.XStop), 1>>)

\* three points from 0 to 4: the axis is 0, 2, 4 and the powers are as read
C3_Witness ==
    /\ pc = "done"
    /\ args.Count = <<3>> /\ args.XStart = <<0>> /\ args.XStop = <<4>>
    /\ args.y = <<7, 8, 7>>
    /\ ret.status = "ok"
    /\ RatEq(ret.f[2], <<2, 1>>)
    /\ ret.p = <<7, 8, 7>>

\* C4: the reader fails whenever Count differs from the number of y elements;
\* it returns no power sequence that is padded or truncated.
C4_CountValidated ==
    (pc = "done" /\ HasScalars /\ ~CountMatches) => ret.status # "ok"

(***************************************************************************)
(* read_result_csv.  A file is `pad` filler lines, then the lines of        *)
(* `head` (each a list of comma-separated fields), then one numeric value   *)
(* per line of `data`; `newline` tells whether the last line of the file    *)
(* ends with a line break.  readlines() keeps the line break, so            *)
(* split(',') leaves it on the last field of every terminated line.         *)
(***************************************************************************)
SkipHeader == 63

Keys == {"Frequency", "XStart", "XStop"}

Numeric == {"1", "2"}

\* float(token); only called on tokens of Numeric in the model
Float(tok) == IF tok = "1" THEN 1 ELSE 2

\* one line of the file: its kind, its fields, whether it ends with a line break
FileLines(file) ==
    LET n == file.pad + Len(file.head) + Len(file.data)
    IN  [i \in 1..n |->
            [kind |-> IF i <= file.pad THEN "filler"
                      ELSE IF i <= file.pad + Len(file.head) THEN "head" ELSE "data",
             fields |-> IF i <= file.pad THEN <<"[Parameters]">>
                        ELSE IF i <= file.pad + Len(file.head) THEN file.head[i - file.pad]
                        ELSE <<"number">>,
             value |-> IF i > file.pad + Len(file.head)
                       THEN file.data[i - file.pad - Len(file.head)] ELSE 0,
             terminated |-> (i < n \/ file.newline)]]

\* l.split(',') on a line kept with its line break
Split(line) ==
    [j \in 1..Len(line.fields) |->
        IF j = Len(line.fields) /\ line.terminated
        THEN line.fields[j] \o "\n" ELSE line.fields[j]]

\* `key in l`: list membership, any position
KeyIn(key, l) == \E j \in 1..Len(l) : l[j] = key

\* the test of lines 230, 232, 234
Matches(key, l) == KeyIn(key, l) /\ Len(l) = 3

NaN == <<>>

\* np.genfromtxt(filename, skip_header=63): one value per remaining line, <<v>>
\* for the number v and NaN for text that is no number
genfromtxt(lines) ==
    [i \in 1..(IF Len(lines) > SkipHeader THEN Len(lines) - SkipHeader ELSE 0) |->
        LET line == lines[SkipHeader + i]
        IN  IF line.kind = "data" THEN <<line.value>> ELSE NaN]

\* a local variable is <<>> while unbound and <<v>> once assigned v
Unbound == <<>>

\* the loop of lines 228-235: float(l[1]) raises on the first matching line whose
\* second field is no number; otherwise each local is left bound to the value
\* of the last line that matched its key, and unbound if none did
ScanLines(lines) ==
    LET l == [i \in 1..Len(lines) |-> Split(lines[i])]
        hits(key) == {i \in 1..Len(lines) : Matches(key, l[i])}
        bound(key) == IF hits(key) = {} THEN Unbound
                      ELSE <<Float(l[Max(hits(key))][2])>>
    IN  IF \E key \in Keys : \E i \in hits(key) : l[i][2] \notin Numeric
        THEN [error |-> "ValueError", center |-> Unbound, start |-> Unbound,
              stop |-> Unbound]
        ELSE [error |-> "none", center |-> bound("Frequency"),
              start |-> bound("XStart"), stop |-> bound("XStop")]

CsvError(e) ==
    [status |-> e, center |-> Unbound, start |-> Unbound, stop |-> Unbound,
     f |-> <<>>, p |-> <<>>]

read_result_csv(file) ==
    LET lines == FileLines(file)
        p     == genfromtxt(lines)
        loc   == ScanLines(lines)
    IN  IF loc.error # "none" THEN CsvError(loc.error)
        \* line 236 evaluates start - center and stop - center, then len(p)
        ELSE IF Unbound \in {loc.center, loc.start, loc.stop}
             THEN CsvError("UnboundLocalError")
        \* a single value makes genfromtxt return a 0-d array, which has no len()
        ELSE IF Len(p) = 1 THEN CsvError("TypeError")
        ELSE [status |-> "ok", center |-> loc.center, start |-> loc.start,
              stop |-> loc.stop,
              f |-> linspace(loc.start[1] - loc.center[1], loc.stop[1] - loc.center[1],
                             Len(p)),
              p |-> p]

MaxHead == 4

HeadLines ==
    { <<"Frequency", "1", "Hz">>, <<"XStart", "1", "Hz">>, <<"XStop", "2", "Hz">>,
      <<"Frequency", "1">>, <<"XStart", "1", "Hz", "Hz">>,
      <<"Hz", "2", "Frequency">>, <<"Hz", "XStart", "1">> }

\* a file of metadata lines only; the 63 header lines filled exactly or not
\* quite, followed by numeric rows; metadata lines past the header
Bodies ==
    { [pad |-> 0, data |-> <<>>],
      [pad |-> SkipHeader - 2, data |-> <<3, 4>>],
      [pad |-> SkipHeader - 2, data |-> <<3>>],
      [pad |-> SkipHeader, data |-> <<3, 4>>] }

InitCsv ==
    /\ \E head \in SeqsUpTo(HeadLines, MaxHead), body \in Bodies, newline \in BOOLEAN :
          args = [head |-> head, pad |-> body.pad, data |-> body.data,
                  newline |-> newline]
    /\ pc = "call"
    /\ ret = NoRet
    /\ fh = "none"
    /\ out = <<>>

ReadCsv ==
    /\ pc = "call"
    /\ ret' = read_result_csv(args)
    /\ pc' = "done"
    /\ UNCHANGED <<args, fh, out>>

NextCsv == ReadCsv

SpecCsv == InitCsv /\ [][NextCsv]_vars

\* the values of the lines that qualify for a key: first token the key, three fields
QualifyingValues(key) ==
    {Float(args.head[i][2]) : i \in {j \in 1..Len(args.head) :
        /\ Len(args.head[j]) = 3
        /\ args.head[j][1] = key
        /\ args.head[j][2] \in Numeric}}

\* C5: center, start and stop come only from lines whose first token is the key
\* and that have exactly three fields; no other line contributes a value.
C5_FirstTokenOnly ==
    (pc = "done" /\ ret.status = "ok") =>
        /\ QualifyingValues("Frequency") # {} => ret.center[1] \in QualifyingValues("Frequency")
        /\ QualifyingValues("XStart") # {} => ret.start[1] \in QualifyingValues("XStart")
        /\ QualifyingValues("XStop") # {} => ret.stop[1] \in QualifyingValues("XStop")

\* C6: when a key has no qualifying line the call fails and returns no trace.
C6_MissingKeyFails ==
    (pc = "done" /\ \E key \in Keys : QualifyingValues(key) = {}) => ret.status # "ok"

\* What the code does guarantee: a key that no line matched by the test of the
\* code leaves its local unbound, and the call raises instead of returning.
CsvUnboundRaises ==
    (pc = "done" /\ \E key \in Keys :
        \A i \in 1..Len(FileLines(args)) : ~Matches(key, Split(FileLines(args)[i])))
    => ret.status \in {"UnboundLocalError", "ValueError"}

(***************************************************************************)
(* make_test_signal.  The sample at time k/fs of sin(2 pi m f t) is         *)
(* sin(2 pi q / fs) with q = (m f k) mod fs.  For a prime fs the numbers 1  *)
(* and sin(2 pi j / fs), j = 1..(fs-1)/2, are linearly independent over the *)
(* rationals, so a sample is kept exactly as its coefficients               *)
(* [0..(fs-1)/2 -> Int]: index 0 is the rational part (where noise goes),   *)
(* index j the multiple of sin(2 pi j / fs).                                *)
(***************************************************************************)
Half(fs) == (fs - 1) \div 2

ZeroSample(fs) == [j \in 0..Half(fs) |-> 0]

\* np.sin(2 * np.pi * q / fs) for an integer q
Sin(q, fs) ==
    LET r == q % fs
    IN  [j \in 0..Half(fs) |->
            IF j = 0 THEN 0
            ELSE IF r = j THEN 1
            ELSE IF r = fs - j THEN -1
            ELSE 0]

AddSample(u, v, fs) == [j \in 0..Half(fs) |-> u[j] + v[j]]

\* a loop over the harmonics 1 .. nharm + 2
range_from_one(nharm) == [n \in 1..(nharm + 2) |-> n]

\* range(nharm + 2): the values of i, in order
range_nharm(nharm) == [n \in 1..(nharm + 2) |-> n - 1]

RECURSIVE AddHarmonics(_, _, _, _, _, _)
\* the loop of lines 152-153 for the sample at index k, after the first n passes
AddHarmonics(is, n, f, fs, k, x) ==
    IF n > Len(is) THEN x
    ELSE AddHarmonics(is, n + 1, f, fs, k, AddSample(x, Sin(is[n] * f * k, fs), fs))

\* np.random.normal(0, 1, len(t)): one of a few vectors stands for the draw
NoiseVectors(n) == {[k \in 1..n |-> ((k * a) % 3) - 1] : a \in 0..2}

\* make_test_signal(f, fs, length, nharm, noise) with the noise drawn as nz
make_test_signal(f, fs, length, nharm, noise, nz) ==
    LET n == length * fs
        t == [k \in 1..n |-> <<k - 1, fs>>]
        x == [k \in 1..n |-> AddHarmonics(range_nharm(nharm), 1, f, fs, k - 1, ZeroSample(fs))]
    IN  [status |-> "ok",
         t |-> t,
         x |-> IF noise
               THEN [k \in 1..n |-> [x[k] EXCEPT ![0] = @ + nz[k]]]
               ELSE x]

MaxFreq == 3
MaxLength == 2
MaxHarm == 2

\* prime sampling rates
SampleRates == {5, 7}

InitSig ==
    /\ args \in [f : 1..MaxFreq, fs : SampleRates, length : 1..MaxLength,
                 nharm : 0..MaxHarm, noise : BOOLEAN]
    /\ pc = "call"
    /\ ret = NoRet
    /\ fh = "none"
    /\ out = <<>>

MakeSignal ==
    /\ pc = "call"
    /\ \E nz \in NoiseVectors(args.length * args.fs) :
          ret' = make_test_signal(args.f, args.fs, args.length, args.nharm, args.noise, nz)
    /\ pc' = "done"
    /\ UNCHANGED <<args, fh, out>>

NextSig == MakeSignal

SpecSig == InitSig /\ [][NextSig]_vars

RECURSIVE SineSum(_, _, _, _, _)
\* sin(2 pi lo f t) + ... + sin(2 pi hi f t) at t = k / fs
SineSum(lo, hi, f, fs, k) ==
    IF lo > hi THEN ZeroSample(fs)
    ELSE AddSample(SineSum(lo, hi - 1, f, fs, k), Sin(hi * f * k, fs), fs)

\* the call returned length*fs time points k/fs and as many samples, each the
\* sum of the sinusoids with multipliers lo..hi
IsSineSum(lo, hi) ==
    LET n == args.length * args.fs
    IN  /\ ret.status = "ok"
        /\ DOMAIN ret.t = 1..n /\ DOMAIN ret.x = 1..n
        /\ \A k \in 1..n :
              /\ ret.t[k] = <<k - 1, args.fs>>
              /\ ret.x[k] = SineSum(lo, hi, args.f, args.fs, k - 1)

\* C7 as stated: without noise the signal is the sum of nharm+2 sinusoids at
\* f, 2f, ..., (nharm+2) f.
C7_AsStated == (pc = "done" /\ ~args.noise) => IsSineSum(1, args.nharm + 2)

\* C7 amended: the multipliers summed are 0..nharm+1; the term of multiplier 0
\* is identically zero, so the signal is the sum of the nharm+1 sinusoids at
\* f, ..., (nharm+1) f (with nharm = 0: sin(2 pi f t) alone).
C7_HarmonicsFromZero == (pc = "done" /\ ~args.noise) => IsSineSum(1, args.nharm + 1)

\* nharm = 1 at f = 1, fs = 7: the second sample is sin(2 pi/7) + sin(4 pi/7)
C7_Witness ==
    /\ pc = "done" /\ ~args.noise
    /\ args.f = 1 /\ args.fs = 7 /\ args.length = 1 /\ args.nharm = 1
    /\ Len(ret.x) = 7
    /\ ret.x[2] = [j \in 0..3 |-> IF j \in {1, 2} THEN 1 ELSE 0]

(***************************************************************************)
(* get_eng_notation.  A value is sign * m * 10^e with m >= 1 (sign 0 is the *)
(* value 0); arithmetic on it is exact decimal arithmetic.                  *)
(***************************************************************************)
\* the keys of ref
RefKeys == {k \in -24..24 : k % 3 = 0}

\* ref[k]
ref(k) ==
    CASE k = 24 -> "Y" [] k = 21 -> "Z" [] k = 18 -> "E" [] k = 15 -> "P"
      [] k = 12 -> "T" [] k = 9 -> "G" [] k = 6 -> "M" [] k = 3 -> "k"
      [] k = 0 -> "" [] k = -3 -> "m" [] k = -6 -> "u" [] k = -9 -> "n"
      [] k = -12 -> "p" [] k = -15 -> "f" [] k = -18 -> "a" [] k = -21 -> "z"
      [] k = -24 -> "y"

RECURSIVE Digits(_)
\* number of decimal digits of m >= 1
Digits(m) == IF m < 10 THEN 1 ELSE 1 + Digits(m \div 10)

\* abs(value) >= 10 ** key, for abs(value) = m * 10^e
AbsGeqPow10(m, e, key) == Digits(m) - 1 + e >= key

\* int(abs(value) / 10 ** num * 10 ** decimal_place)
Mantissa(m, e, num, decimal_place) ==
    LET s == e - num + decimal_place
    IN  IF s >= 0 THEN m * Pow10(s) ELSE m \div Pow10(-s)

RECURSIVE PadDigits(_, _)
\* the last d decimal digits of n, with leading zeros
PadDigits(n, d) == IF d = 0 THEN "" ELSE PadDigits(n \div 10, d - 1) \o ToString(n % 10)

RECURSIVE Fraction(_, _)
\* the d fractional digits n without trailing zeros
Fraction(n, d) ==
    IF d = 0 THEN ""
    ELSE IF n % 10 = 0 THEN Fraction(n \div 10, d - 1)
    ELSE PadDigits(n, d)

\* str(t / 10 ** decimal_place) for the float t / 10^decimal_place
FloatStr(t, decimal_place) ==
    LET p    == Pow10(decimal_place)
        frac == Fraction(t % p, decimal_place)
    IN  ToString(t \div p) \o "." \o (IF frac = "" THEN "0" ELSE frac)

EngResult(status, text, flag, t, num, mult) ==
    [status |-> status, text |-> text, flag |-> flag, t |-> t, num |-> num, mult |-> mult]

get_eng_notation(value, unit, decimal_place) ==
    IF value.sign = 0 THEN EngResult("ok", "0" \o unit, "", 0, 0, "")
    ELSE LET flag == IF value.sign < 0 THEN "-" ELSE ""
             keys == {key \in RefKeys : AbsGeqPow10(value.m, value.e, key)}
         IN  IF keys = {} THEN EngResult("ValueError", "", flag, 0, 0, "")
             ELSE LET num  == Max(keys)
                      mult == IF num = 0 THEN ""
                              ELSE IF unit # "" THEN ref(num)
                              ELSE "e" \o ToString(num)
                      t    == Mantissa(value.m, value.e, num, decimal_place)
                  IN  EngResult("ok",
                                flag \o FloatStr(t, decimal_place) \o mult \o unit,
                                flag, t, num, mult)

MaxExp == 25
MaxDecimals == 2

Mantissas == {1, 15, 999, 1234}

InitEng ==
    /\ \E sign \in {-1, 0, 1}, m \in Mantissas, e \in (-MaxExp)..MaxExp,
          unit \in {"", "Hz"}, dp \in 0..MaxDecimals :
          args = [value |-> IF sign = 0 THEN [sign |-> 0, m |-> 1, e |-> 0]
                            ELSE [sign |-> sign, m |-> m, e |-> e],
                  unit |-> unit, decimal_place |-> dp]
    /\ pc = "call"
    /\ ret = NoRet
    /\ fh = "none"
    /\ out = <<>>

EngNotation ==
    /\ pc = "call"
    /\ ret' = get_eng_notation(args.value, args.unit, args.decimal_place)
    /\ pc' = "done"
    /\ UNCHANGED <<args, fh, out>>

NextEng == EngNotation

SpecEng == InitEng /\ [][NextEng]_vars

\* t / 10^decimal_place is abs(value) / 10^num cut after decimal_place places:
\* t * 10^(num - dp) <= m * 10^e < (t + 1) * 10^(num - dp)
IsTruncation(t, m, e, num, dp) ==
    LET s == e - num + dp
    IN  IF s >= 0 THEN t = m * Pow10(s)
        ELSE t * Pow10(-s) <= m /\ m < (t + 1) * Pow10(-s)

\* 10^num <= m * 10^e < 10^(num + 3)
InDecade(m, e, num) == num <= Digits(m) - 1 + e /\ Digits(m) - 1 + e < num + 3

\* what the claim says of a call on a nonzero value
EngAsClaimed ==
    LET v  == args.value
        dp == args.decimal_place
    IN  /\ ret.status = "ok"
        /\ ret.num \in RefKeys /\ InDecade(v.m, v.e, ret.num)
        /\ Pow10(dp) <= ret.t /\ ret.t < 1000 * Pow10(dp)
        /\ IsTruncation(ret.t, v.m, v.e, ret.num, dp)
        /\ ret.flag = (IF v.sign < 0 THEN "-" ELSE "")
        /\ ret.mult = (IF ret.num = 0 THEN ""
                       ELSE IF args.unit # "" THEN ref(ret.num)
                       ELSE "e" \o ToString(ret.num))
        /\ (v = [sign |-> 1, m |-> 15, e |-> 2] /\ args.unit = "Hz" /\ dp = 2)
              => ret.text = "1.5kHz"

\* C8: 0 gives '0' and the unit; every nonzero value gives sign, mantissa in
\* [1, 1000) truncated to decimal_place places, SI prefix (or e<k>), unit.
C8_AsStated ==
    pc = "done" =>
        IF args.value.sign = 0 THEN ret.text = "0" \o args.unit ELSE EngAsClaimed

\* the same, for the values 10^-24 <= abs(value) < 10^27 that the table covers
EngInRange ==
    (pc = "done" /\ args.value.sign # 0
       /\ AbsGeqPow10(args.value.m, args.value.e, -24)
       /\ ~AbsGeqPow10(args.value.m, args.value.e, 27)) => EngAsClaimed

EngExamples ==
    /\ get_eng_notation([sign |-> 1, m |-> 15, e |-> 2], "Hz", 2).text = "1.5kHz"
    /\ get_eng_notation([sign |-> 0, m |-> 1, e |-> 0], "Hz", 2).text = "0Hz"
    /\ get_eng_notation([sign |-> -1, m |-> 12345678, e |-> -4], "", 2).text = "-1.23e3"
    /\ get_eng_notation([sign |-> 1, m |-> 1, e |-> 27], "Hz", 2).text = "1000.0YHz"
    /\ get_eng_notation([sign |-> 1, m |-> 1, e |-> -3], "", 1).text = "1.0e-3"
    /\ get_eng_notation([sign |-> 1, m |-> 25, e |-> -6], "s", 3).text = "25.0us"
    /\ get_eng_notation([sign |-> 1, m |-> 1, e |-> -25], "g", 2).status = "ValueError"

(***************************************************************************)
(* parse_filename.  A file name is its underscore-separated fields, each a  *)
(* sequence of lexemes: a run of digits, a unit, or other text.             *)
(***************************************************************************)
DigitRuns == {"374", "250"}

\* the number a run of digits denotes
DigitValue(d) == IF d = "374" THEN 374 ELSE 250

\* field.replace(unit, exponent)
Replace(field, unit, exponent) ==
    [j \in 1..Len(field) |-> IF field[j] = unit THEN exponent ELSE field[j]]

\* the exponent a lexeme denotes when it follows the digits of a float literal
ExponentValue(x) == IF x = "e6" THEN 6 ELSE -6

\* float(text): <<mantissa, exponent>> for digits or digits followed by an
\* exponent, <<>> (ValueError) for anything else
ParseFloat(text) ==
    IF Len(text) = 1 /\ text[1] \in DigitRuns THEN <<DigitValue(text[1]), 0>>
    ELSE IF Len(text) = 2 /\ text[1] \in DigitRuns /\ text[2] \in {"e6", "e-6"}
         THEN <<DigitValue(text[1]), ExponentValue(text[2])>>
    ELSE <<>>

NameError(e) == [status |-> e, descr |-> <<>>, energy |-> <<>>, current |-> <<>>]

\* parse_filename(filename), filename given as filename.split('_')
parse_filename(fields) ==
    IF Len(fields) < 2 THEN NameError("IndexError")
    ELSE LET energy == ParseFloat(Replace(fields[2], "MeVu", "e6"))
         IN  IF energy = <<>> THEN NameError("ValueError")
             ELSE IF Len(fields) < 3 THEN NameError("IndexError")
             ELSE LET current == ParseFloat(Replace(fields[3], "uA", "e-6"))
                  IN  IF current = <<>> THEN NameError("ValueError")
                      ELSE [status |-> "ok", descr |-> fields[1],
                            energy |-> energy, current |-> current]

MaxFields == 4

Fields ==
    { <<"58Ni26+">>, <<"pos">>, <<"374", "MeVu">>, <<"250", "uA">>,
      <<"374">>, <<"250">>, <<"MeVu">>, <<"374", "uA">>, <<"MeVu", "374">> }

InitName ==
    /\ \E fields \in SeqsUpTo(Fields, MaxFields) :
          /\ fields # <<>>
          /\ args = [filename |-> fields]
    /\ pc = "call"
    /\ ret = NoRet
    /\ fh = "none"
    /\ out = <<>>

ParseName ==
    /\ pc = "call"
    /\ ret' = parse_filename(args.filename)
    /\ pc' = "done"
    /\ UNCHANGED <<args, fh, out>>

NextName == ParseName

SpecName == InitName /\ [][NextName]_vars

\* <desc>_<value>MeVu_<value>uA_...
FollowsPattern(fields) ==
    /\ Len(fields) >= 3
    /\ Len(fields[2]) = 2 /\ fields[2][1] \in DigitRuns /\ fields[2][2] = "MeVu"
    /\ Len(fields[3]) = 2 /\ fields[3][1] \in DigitRuns /\ fields[3][2] = "uA"

\* C9: a name that follows the pattern gives (description, value * 10^6 eV,
\* value * 10^-6 A); every name that does not follow it fails.
C9_AsStated ==
    pc = "done" =>
        IF FollowsPattern(args.filename)
        THEN /\ ret.status = "ok"
             /\ ret.descr = args.filename[1]
             /\ ret.energy = <<DigitValue(args.filename[2][1]), 6>>
             /\ ret.current = <<DigitValue(args.filename[3][1]), -6>>
        ELSE ret.status # "ok"

\* what the code does guarantee: names that follow the pattern are parsed as
\* claimed, and names with fewer than three fields fail
NameParsed ==
    pc = "done" =>
        /\ FollowsPattern(args.filename) =>
              /\ ret.status = "ok"
              /\ ret.descr = args.filename[1]
              /\ ret.energy = <<DigitValue(args.filename[2][1]), 6>>
              /\ ret.current = <<DigitValue(args.filename[3][1]), -6>>
        /\ Len(args.filename) < 3 => ret.status \in {"IndexError", "ValueError"}

(***************************************************************************)
(* The file writers write_signal_to_csv, write_timedata_to_root and         *)
(* write_spectrum_to_root, one statement per step.  fh is the state of the  *)
(* output file ("none", "open", "closed"), out what has been written to it, *)
(* ret.i the number of statements of the body that have run.  A `with`      *)
(* block closes its file when the block is left, normally or by an          *)
(* exception.  write_spectrum_to_root opens its file without `with` and     *)
(* never calls close: the file stays open until the garbage collector       *)
(* finalizes the unreachable object, some time after the call has ended.    *)
(***************************************************************************)
Writers == {"write_signal_to_csv", "write_timedata_to_root", "write_spectrum_to_root"}

\* the writers that open their file in a `with` statement
UsesWith(op) == op \in {"write_signal_to_csv", "write_timedata_to_root"}

\* np.insert(cx, 0, complex(fs, center))
insert_header(cx, fs, center) == <<<<fs, center>>>> \o cx

\* np.abs(z) ** 2 of the samples
Power(data) == [k \in 1..Len(data) |-> data[k][1] * data[k][1] + data[k][2] * data[k][2]]

\* the six statements of the body of write_timedata_to_root
TimedataBody(a) ==
    << <<"t_f_samp", "newtree">>, <<"t_f_center", "newtree">>, <<"t_timedata", "newtree">>,
       <<"t_f_samp", <<a.fs>>>>, <<"t_f_center", <<a.center>>>>,
       <<"t_timedata", Power(a.data)>> >>

\* MyTH1(center + ff[0], center + ff[-1], pp.tolist()): under- and overflow bins added
MyTH1(a) ==
    [low |-> a.center + 1, high |-> a.center + Len(a.data),
     values |-> <<0>> \o Power(a.data) \o <<0>>]

\* what the body of the writer writes, statement by statement
Body(a) ==
    CASE a.op = "write_signal_to_csv" -> insert_header(a.data, a.fs, a.center)
      [] a.op = "write_timedata_to_root" -> TimedataBody(a)
      [] a.op = "write_spectrum_to_root" -> <<MyTH1(a)>>

Running(i) == [status |-> "running", i |-> i]

MaxData == 2

DataSamples == {<<1, 0>>, <<0, 2>>}

InitWrite ==
    /\ args \in [op : Writers, data : SeqsUpTo(DataSamples, MaxData),
                 fs : {1, 2}, center : {0}]
    /\ pc = "call"
    /\ ret = NoRet
    /\ fh = "none"
    /\ out = <<>>

\* building the histogram of an empty spectrum fails at ff[0], before the open
BuildFails ==
    /\ pc = "call"
    /\ args.op = "write_spectrum_to_root" /\ args.data = <<>>
    /\ pc' = "raised"
    /\ ret' = Raised("IndexError")
    /\ UNCHANGED <<args, fh, out>>

\* open(...) / uproot3.recreate(...) succeeds
Open ==
    /\ pc = "call"
    /\ args.op = "write_spectrum_to_root" => args.data # <<>>
    /\ fh' = "open"
    /\ pc' = "body"
    /\ ret' = Running(0)
    /\ UNCHANGED <<args, out>>

\* ... or fails: no file was opened
OpenFails ==
    /\ pc = "call"
    /\ args.op = "write_spectrum_to_root" => args.data # <<>>
    /\ pc' = "raised"
    /\ ret' = Raised("OSError")
    /\ UNCHANGED <<args, fh, out>>

\* the next statement of the body writes to the file
Write ==
    /\ pc = "body"
    /\ ret.i < Len(Body(args))
    /\ out' = Append(out, Body(args)[ret.i + 1])
    /\ ret' = Running(ret.i + 1)
    /\ UNCHANGED <<args, pc, fh>>

\* the next statement of the body raises; a `with` block closes the file on the way out
WriteFails ==
    /\ pc = "body"
    /\ ret.i < Len(Body(args))
    /\ fh' = IF UsesWith(args.op) THEN "closed" ELSE fh
    /\ pc' = "raised"
    /\ ret' = Raised("OSError")
    /\ UNCHANGED <<args, out>>

\* the body is done: a `with` block closes the file, and the function returns
Return ==
    /\ pc = "body"
    /\ ret.i = Len(Body(args))
    /\ fh' = IF UsesWith(args.op) THEN "closed" ELSE fh
    /\ pc' = "returned"
    /\ ret' = [status |-> "ok", i |-> ret.i]
    /\ UNCHANGED <<args, out>>

\* after the call: the garbage collector finalizes a file object left open
Finalize ==
    /\ pc \in {"returned", "raised"}
    /\ fh = "open"
    /\ fh' = "closed"
    /\ UNCHANGED <<args, pc, ret, out>>

NextWrite == BuildFails \/ Open \/ OpenFails \/ Write \/ WriteFails \/ Return \/ Finalize

SpecWrite == InitWrite /\ [][NextWrite]_vars

\* C10: no writer ends, by return or by exception, with its output file open.
C10_FileReleased == [][(pc = "body" /\ pc' \in {"returned", "raised"}) => fh' # "open"]_vars

\* the two writers that use `with` do release their file on every exit path
WithWritersRelease ==
    [][(pc = "body" /\ pc' \in {"returned", "raised"} /\ UsesWith(args.op))
          => fh' = "closed"]_vars

====
